---- MODULE Spec2Model ----
(***************************************************************************)
(* Model of po-line-renewal.py: the command line tool that bulk-updates    *)
(* the renewal date (and optionally the renewal period) of Alma PO Lines.  *)
(* One run of main() is modelled; the Alma API is the environment, which   *)
(* answers each request with a 2xx response, a 4xx response, or not at all *)
(* (a transport fault: a RequestException that carries no response).       *)
(*                                                                         *)
(* Python strings that are compared or concatenated character by character *)
(* (dates, PO Line IDs) are sequences of one-character strings; an         *)
(* optional value is None (<<>>) or Some(v) (<<v>>).                        *)
(***************************************************************************)
EXTENDS Integers, Sequences, FiniteSets, TLC

\* ------------------------------------------------------------------ bounds
\* Longest tuple of PO_LINE_ID_ARGS tried.
MaxArgs == 2
\* Most entries the API puts in one page of a listing the model tries.
MaxPage == 2

\* ------------------------------------------------------- program constants
OFFSET_LIMIT_WINDOW_SIZE == 50
\* range(0, 1000*OFFSET_LIMIT_WINDOW_SIZE, ...) in get_set_id
SetOffsetFactor == 1000
\* range(0, 1000, ...) in get_po_line_ids
MemberOffsetStop == 1000
\* click.IntRange(1, 365)
PeriodMin == 1
PeriodMax == 365

None == <<>>
Some(v) == <<v>>

\* --------------------------------------------------------------- strings
Digits == {"0", "1", "2", "3", "4", "5", "6", "7", "8", "9"}

\* Code points of the characters the model uses: Python orders str by them.
Ord(c) ==
    CASE c = "-" -> 45
      [] c = "0" -> 48 [] c = "1" -> 49 [] c = "2" -> 50 [] c = "3" -> 51
      [] c = "4" -> 52 [] c = "5" -> 53 [] c = "6" -> 54 [] c = "7" -> 55
      [] c = "8" -> 56 [] c = "9" -> 57
      [] c = "A" -> 65 [] c = "Z" -> 90

\* Python's str < str: the first differing character decides, a proper
\* prefix is smaller.
RECURSIVE StrLess(_, _)
StrLess(a, b) ==
    IF b = <<>> THEN FALSE
    ELSE IF a = <<>> THEN TRUE
    ELSE IF Head(a) = Head(b) THEN StrLess(Tail(a), Tail(b))
    ELSE Ord(Head(a)) < Ord(Head(b))

\* sorted(list(s)) for a set of str.
RECURSIVE Sorted(_)
Sorted(s) ==
    IF s = {} THEN <<>>
    ELSE LET m == CHOOSE x \in s : \A y \in s \ {x} : StrLess(x, y)
         IN  <<m>> \o Sorted(s \ {m})

\* set(t) for a tuple t.
ToSet(t) == {t[i] : i \in 1..Len(t)}

SeqsUpTo(S, n) == UNION {[1..k -> S] : k \in 0..n}

\* ------------------------------------------------------------ input space
\* "10" < "2" < "A" as Python strings (not as numbers, not by length).
Id10 == <<"1", "0">>
Id2 == <<"2">>
IdA == <<"A">>
\* PO Line IDs a set can hold, and PO Line IDs given as arguments.
MemberIds == {Id10, Id2}
ArgIds == {Id2, IdA}
PoLineIds == MemberIds \cup ArgIds

Date_2024_06_01 == <<"2", "0", "2", "4", "-", "0", "6", "-", "0", "1">>
Date_2024_02_29 == <<"2", "0", "2", "4", "-", "0", "2", "-", "2", "9">>
Date_2023_02_29 == <<"2", "0", "2", "3", "-", "0", "2", "-", "2", "9">>
Date_2024_13_01 == <<"2", "0", "2", "4", "-", "1", "3", "-", "0", "1">>
Date_2024_6_1 == <<"2", "0", "2", "4", "-", "6", "-", "1">>
Date_2024_06_31 == <<"2", "0", "2", "4", "-", "0", "6", "-", "3", "1">>
Date_BadSeparator == <<"2", "0", "2", "4", "A", "0", "6", "A", "0", "1">>

DateInputs ==
    {Date_2024_06_01, Date_2024_02_29, Date_2023_02_29, Date_2024_13_01,
     Date_2024_6_1, Date_2024_06_31, Date_BadSeparator}

\* --new-renewal-period as typed: absent, or an integer.
PeriodInputs == {None, Some(0), Some(90), Some(366)}
SetNameInputs == {None, Some("S")}
SetIdInputs == {None, Some("101")}
ArgInputs == SeqsUpTo(ArgIds, MaxArgs)

\* ---------------------------------------------------------- the Alma API
\* Entries of the /conf/sets listing: names differ in case, ids differ.
SetEntries ==
    {[id |-> "101", name |-> "S"], [id |-> "102", name |-> "S"],
     [id |-> "103", name |-> "s"]}
SetPages == SeqsUpTo(SetEntries, MaxPage)

MemberPages == SeqsUpTo([id : MemberIds], MaxPage)
TotalCounts == 0..(Cardinality(MemberIds) + 1)

OldDate == <<"2", "0", "2", "0", "-", "0", "1", "-", "0", "1", "Z">>
BaseDoc == ("renewal_date" :> OldDate) @@ ("other_field" :> "X")
\* PO Line documents the API returns: with and without a renewal_period,
\* and one that has no renewal_date yet.
PoLineDocs ==
    {BaseDoc, ("renewal_period" :> 30) @@ BaseDoc, ("other_field" :> "Y")}

Url(path, po_line_id) == [path |-> path, po_line_id |-> po_line_id]

\* What comes back for one request: no response at all (None), or a
\* response with a status code and, when 200, one of the bodies.
Answers(url, bodies) ==
    {None}
    \cup {Some([status_code |-> 404, url |-> url, text |-> "error"])}
    \cup {Some([status_code |-> 200, url |-> url, json |-> b]) : b \in bodies}

VARIABLES
    pc,                  \* where main is
    exit_code,           \* the process exit status, -1 while running
    exit_msg,            \* what the process died of
    new_renewal_date, new_renewal_period, set_name, set_id, po_line_id_args,
    offset,              \* loop variable of the pager that is running
    json_content,        \* get_set_id: the page that made it return
    po_line_ids, total_po_lines,
    sorted_ids,          \* sorted(list(po_line_ids)), the progress bar's items
    pos,                 \* items of sorted_ids already iterated
    failed_po_line_ids,
    fetched, content,    \* update_po_line: r.json() as fetched, and as written
    stdout,              \* what click.echo printed about failures
    \* observations of the environment
    network_used,        \* some request was sent
    probed,              \* endpoints whose probe answered 2xx
    listing_requests,    \* requests get_set_id sent in its current call
    listing_last_offset, \* the offset parameter of the last of them
    listing_had_match,   \* some served page had an entry named set_name
    members_served,      \* ids the served member pages held
    members_returned,    \* get_po_line_ids returned normally
    attempted,           \* ids update_po_line was called with, in order
    get_count, put_count,\* requests per PO Line ID
    last_get, last_put,  \* ids the last update_po_line call fetched / wrote
    outcome              \* per id: what the API did with its update

vars ==
    <<pc, exit_code, exit_msg, new_renewal_date, new_renewal_period, set_name,
      set_id, po_line_id_args, offset, json_content, po_line_ids,
      total_po_lines, sorted_ids, pos, failed_po_line_ids, fetched, content,
      stdout, network_used, probed, listing_requests, listing_last_offset,
      listing_had_match, members_served, members_returned, attempted,
      get_count, put_count,
      last_get, last_put, outcome>>

inputs == <<new_renewal_date, new_renewal_period, set_name, po_line_id_args>>
resolver == <<offset, json_content, listing_requests, listing_last_offset,
              listing_had_match>>
enumerator == <<po_line_ids, total_po_lines, members_served,
                members_returned>>
batch == <<sorted_ids, pos, failed_po_line_ids, fetched, content, attempted,
           get_count, put_count, last_get, last_put, outcome>>

Init ==
    /\ pc = "parse"
    /\ exit_code = -1
    /\ exit_msg = ""
    /\ new_renewal_date \in DateInputs
    /\ new_renewal_period \in PeriodInputs
    /\ set_name \in SetNameInputs
    /\ set_id \in SetIdInputs
    /\ po_line_id_args \in ArgInputs
    /\ offset = 0
    /\ json_content = None
    /\ po_line_ids = {}
    /\ total_po_lines = 0
    /\ sorted_ids = <<>>
    /\ pos = 0
    /\ failed_po_line_ids = <<>>
    /\ fetched = None
    /\ content = None
    /\ stdout = <<>>
    /\ network_used = FALSE
    /\ probed = {}
    /\ listing_requests = 0
    /\ listing_last_offset = -1
    /\ listing_had_match = FALSE
    /\ members_served = {}
    /\ members_returned = FALSE
    /\ attempted = <<>>
    /\ get_count = [i \in PoLineIds |-> 0]
    /\ put_count = [i \in PoLineIds |-> 0]
    /\ last_get = None
    /\ last_put = None
    /\ outcome = [i \in PoLineIds |-> "none"]

\* ------------------------------------------------------------ exceptions
\* requests.get(...) followed by r.raise_for_status(): the RequestException
\* raised for an answer, or None. A transport fault carries no response.
RequestError(ans) ==
    IF ans = None THEN Some([response |-> None])
    ELSE IF ans[1].status_code >= 400 /\ ans[1].status_code < 600
         THEN Some([response |-> ans])
         ELSE None

Exit(code, msg) ==
    /\ pc' = "done"
    /\ exit_code' = code
    /\ exit_msg' = msg

\* echo_request_exception(e): e.response.url of a missing response is an
\* AttributeError, which nothing catches.
EchoRaises(e) == e.response = None
EchoLines(e) ==
    <<<<"detail", e.response[1].url, e.response[1].status_code,
        e.response[1].text>>>>

\* except RequestException as e: echo_request_exception(e); sys.exit(msg)
\* An uncaught exception ends the process with status 1 and a traceback that
\* names the handler it came from.
EchoAndExit(e, msg) ==
    IF EchoRaises(e)
    THEN /\ Exit(1, "AttributeError handling: " \o msg)
         /\ UNCHANGED stdout
    ELSE /\ Exit(1, msg)
         /\ stdout' = stdout \o EchoLines(e)

\* ------------------------------------------------------------- validation
Num(cs) == IF Len(cs) = 2 THEN 10 * (Ord(cs[1]) - 48) + (Ord(cs[2]) - 48)
           ELSE 1000 * (Ord(cs[1]) - 48) + 100 * (Ord(cs[2]) - 48)
                + 10 * (Ord(cs[3]) - 48) + (Ord(cs[4]) - 48)

IsLeap(y) == y % 4 = 0 /\ (y % 100 # 0 \/ y % 400 = 0)
DaysInMonth(y, m) ==
    IF m = 2 THEN (IF IsLeap(y) THEN 29 ELSE 28)
    ELSE IF m \in {4, 6, 9, 11} THEN 30 ELSE 31

\* date.fromisoformat(value) does not raise ValueError: YYYY-MM-DD naming a
\* day of the proleptic Gregorian calendar. (Python 3.11 and later also take
\* other ISO 8601 spellings; none of them is among DateInputs.)
FromIsoFormatOk(value) ==
    /\ Len(value) = 10
    /\ value[5] = "-" /\ value[8] = "-"
    /\ \A i \in {1, 2, 3, 4, 6, 7, 9, 10} : value[i] \in Digits
    /\ LET y == Num(SubSeq(value, 1, 4))
           m == Num(SubSeq(value, 6, 7))
           d == Num(SubSeq(value, 9, 10))
       IN  /\ y >= 1
           /\ m >= 1 /\ m <= 12
           /\ d >= 1 /\ d <= DaysInMonth(y, m)

\* A validation that checks the shape of the value and not the calendar.
validate_renewal_date_ShapeOnly(value) ==
    /\ Len(value) = 10
    /\ value[5] = "-" /\ value[8] = "-"
    /\ \A i \in {1, 2, 3, 4, 6, 7, 9, 10} : value[i] \in Digits

\* validate_renewal_date: TRUE when it returns the value, FALSE when it
\* raises click.BadParameter.
validate_renewal_date(value) == FromIsoFormatOk(value)

\* click.IntRange(1, 365) on an option that may be absent.
IntRangeOk(p) == p = None \/ (p[1] >= PeriodMin /\ p[1] <= PeriodMax)

\* Python truth of an optional str, an optional int and a tuple.
TruthyStr(v) == v # None /\ v[1] # ""
TruthyInt(v) == v # None /\ v[1] # 0

\* click parses the command line and runs the option callbacks before main's
\* body; a bad parameter is a usage error, exit status 2.
ClickParse ==
    /\ pc = "parse"
    /\ IF validate_renewal_date(new_renewal_date) /\ IntRangeOk(new_renewal_period)
       THEN /\ pc' = "validate"
            /\ UNCHANGED <<exit_code, exit_msg>>
       ELSE Exit(2, "usage")
    /\ UNCHANGED <<inputs, set_id, resolver, enumerator, batch, stdout,
                   network_used, probed>>

\* The two checks under "# Validate input".
ValidateInput ==
    /\ pc = "validate"
    /\ IF ~TruthyStr(set_name) /\ po_line_id_args = <<>> /\ ~TruthyStr(set_id)
       THEN Exit(1, "Error: A set name, set ID, or PO Line IDs must be provided.")
       ELSE IF TruthyStr(set_name) /\ TruthyStr(set_id)
       THEN Exit(1, "Error: A set name OR a set ID can be provided, not both.")
       ELSE /\ pc' = "probe_sets"
            /\ UNCHANGED <<exit_code, exit_msg>>
    /\ UNCHANGED <<inputs, set_id, resolver, enumerator, batch, stdout,
                   network_used, probed>>

\* ---------------------------------------------------------- access checks
\* Where main goes once the set ID is settled (line 149).
AfterSetId(sid) == IF TruthyStr(sid) THEN "get_po_line_ids" ELSE "merge"

\* A probe that forgets r.raise_for_status().
can_access_url_NoRaise(ans) ==
    IF ans = None THEN Some([response |-> None]) ELSE None

\* can_access_url(url): the exception it raises for an answer, or None.
can_access_url(ans) == RequestError(ans)

\* One probe of the try block; next is where main continues when it passes.
CanAccess(here, path, next) ==
    /\ pc = here
    /\ \E ans \in Answers(Url(path, None), {None}) :
         /\ LET e == can_access_url(ans)
            IN  IF e # None
                THEN EchoAndExit(e[1], "Error: Unable to access the Alma API.")
                ELSE /\ pc' = next
                     /\ UNCHANGED <<exit_code, exit_msg, stdout>>
         /\ probed' = IF ans # None /\ ans[1].status_code = 200
                      THEN probed \cup {path} ELSE probed
    /\ network_used' = TRUE
    /\ UNCHANGED <<inputs, set_id, resolver, enumerator, batch>>

CanAccessSets == CanAccess("probe_sets", "/almaws/v1/conf/sets", "probe_po_lines")

CanAccessPoLines ==
    CanAccess("probe_po_lines", "/almaws/v1/acq/po-lines",
              IF TruthyStr(set_name) THEN "get_set_id" ELSE AfterSetId(set_id))

\* ------------------------------------------------------------- get_set_id
\* Bodies the /conf/sets listing answers with: a dict with a 'set' list, or
\* one without the key.
SetBodies == {<<>>} \cup {("set" :> p) : p \in SetPages}

\* A scan that keeps looking after a match, so the last match wins.
RECURSIVE FirstNamed_LastWins(_, _)
FirstNamed_LastWins(page, name) ==
    IF page = <<>> THEN None
    ELSE LET later == FirstNamed_LastWins(Tail(page), name)
         IN  IF later # None THEN later
             ELSE IF Head(page).name = name THEN Some(Head(page).id)
             ELSE None

\* for alma_set in json_content['set']: the id of the first entry whose name
\* is set_name, or None when the loop ends.
RECURSIVE FirstNamed(_, _)
FirstNamed(page, name) ==
    IF page = <<>> THEN None
    ELSE IF Head(page).name = name THEN Some(Head(page).id)
    ELSE FirstNamed(Tail(page), name)

\* The offset of the next iteration of a pager's range().
NextOffset(o) == o + OFFSET_LIMIT_WINDOW_SIZE

HasNamed(body, name) ==
    /\ "set" \in DOMAIN body
    /\ \E i \in 1..Len(body["set"]) : body["set"][i].name = name

\* One iteration of get_set_id's loop, with what main does when the call ends
\* by an exception (lines 141-145). Falling out of the loop returns None.
GetSetIdPage ==
    /\ pc = "get_set_id"
    /\ offset < SetOffsetFactor * OFFSET_LIMIT_WINDOW_SIZE
    /\ \E ans \in Answers(Url("/almaws/v1/conf/sets", None), SetBodies) :
         LET e == RequestError(ans)
             body == ans[1].json
             hit == FirstNamed(body["set"], set_name[1])
         IN  /\ listing_had_match' =
                    (listing_had_match \/ (e = None /\ HasNamed(body, set_name[1])))
             /\ IF e # None
                THEN /\ EchoAndExit(e[1], "Error: Error accessing the Alma API.")
                     /\ UNCHANGED <<set_id, offset, json_content>>
                ELSE IF "set" \notin DOMAIN body
                THEN /\ Exit(1, "Error: Unable to find set ID")
                     /\ UNCHANGED <<set_id, offset, json_content, stdout>>
                ELSE IF hit # None
                THEN /\ set_id' = hit
                     /\ json_content' = Some(body)
                     /\ pc' = "found"
                     /\ UNCHANGED <<offset, exit_code, exit_msg, stdout>>
                ELSE /\ offset' = NextOffset(offset)
                     /\ IF offset' < SetOffsetFactor * OFFSET_LIMIT_WINDOW_SIZE
                        THEN UNCHANGED <<pc, set_id>>
                        ELSE pc' = "found" /\ set_id' = None
                     /\ UNCHANGED <<json_content, exit_code, exit_msg, stdout>>
    /\ listing_requests' = listing_requests + 1
    /\ listing_last_offset' = offset
    /\ network_used' = TRUE
    /\ UNCHANGED <<inputs, enumerator, batch, probed>>

\* Line 146, after get_set_id returned; its frame and the record of its
\* requests end here.
EchoFound ==
    /\ pc = "found"
    /\ pc' = AfterSetId(set_id)
    /\ offset' = 0
    /\ json_content' = None
    /\ listing_requests' = 0
    /\ listing_last_offset' = -1
    /\ UNCHANGED <<exit_code, exit_msg, inputs, set_id, listing_had_match,
                   enumerator, batch, stdout, network_used, probed>>

\* -------------------------------------------------------- get_po_line_ids
\* Bodies the members listing answers with: a total, with or without a
\* 'member' list.
MemberBodies ==
    {("total_record_count" :> t) : t \in TotalCounts}
    \cup {("total_record_count" :> t) @@ ("member" :> p) :
            t \in TotalCounts, p \in MemberPages}

\* for po_line in json_content['member']: po_line_ids.add(po_line['id'])
AddMembers(ids, page) == ids \cup {page[i].id : i \in 1..Len(page)}

\* An assert that only guards against collecting too many.
CountAsserted_AtMost(ids, total) == Cardinality(ids) <= total

\* assert len(po_line_ids) == total_po_lines
CountAsserted(ids, total) == Cardinality(ids) = total

\* Lines 74-76 and, when the call returns, line 156.
EndOfMembers(ids, total) ==
    IF CountAsserted(ids, total)
    THEN /\ pc' = "merge"
         /\ members_returned' = TRUE
         /\ UNCHANGED <<exit_code, exit_msg>>
    ELSE /\ Exit(1, "AssertionError")
         /\ UNCHANGED members_returned

\* One iteration of get_po_line_ids' loop; the iteration that leaves the loop
\* (by break, or as the last of the range) goes on to the assert.
GetPoLineIdsPage ==
    /\ pc = "get_po_line_ids"
    /\ offset < MemberOffsetStop
    /\ \E ans \in Answers(Url("/almaws/v1/conf/sets/" \o set_id[1] \o "/members",
                              None), MemberBodies) :
         LET e == RequestError(ans)
             body == ans[1].json
         IN  IF e # None
             THEN /\ EchoAndExit(e[1], "Error: Error accessing the Alma API.")
                  /\ UNCHANGED <<offset, enumerator>>
             ELSE /\ members_served' =
                       IF "member" \in DOMAIN body
                       THEN members_served
                            \cup {body["member"][i].id : i \in 1..Len(body["member"])}
                       ELSE members_served
                  /\ total_po_lines' = body["total_record_count"]
                  /\ IF "member" \notin DOMAIN body
                     THEN /\ EndOfMembers(po_line_ids, total_po_lines')
                          /\ UNCHANGED <<offset, po_line_ids>>
                     ELSE /\ po_line_ids' = AddMembers(po_line_ids, body["member"])
                          /\ offset' = NextOffset(offset)
                          /\ IF offset' < MemberOffsetStop
                             THEN UNCHANGED <<pc, exit_code, exit_msg,
                                              members_returned>>
                             ELSE EndOfMembers(po_line_ids', total_po_lines')
                  /\ UNCHANGED stdout
    /\ network_used' = TRUE
    /\ UNCHANGED <<inputs, set_id, json_content, listing_requests,
                   listing_last_offset, listing_had_match, batch, probed>>

\* ------------------------------------------------------------- work list
\* po_line_ids.update(set(po_line_id_args))
MergeArgs(ids, args) == ids \cup ToSet(args)

\* A work list sorted the wrong way round.
RECURSIVE Reversed(_)
Reversed(q) == IF q = <<>> THEN <<>> ELSE Append(Reversed(Tail(q)), Head(q))
WorkList_Descending(ids) == Reversed(Sorted(ids))

\* sorted(list(po_line_ids))
WorkList(ids) == Sorted(ids)

\* Lines 160-168: the merge, the empty failure list, the sorted work list.
BuildWorkList ==
    /\ pc = "merge"
    /\ po_line_ids' = MergeArgs(po_line_ids, po_line_id_args)
    /\ sorted_ids' = WorkList(po_line_ids')
    /\ failed_po_line_ids' = <<>>
    /\ pos' = 0
    /\ offset' = 0
    /\ pc' = "update"
    /\ UNCHANGED <<exit_code, exit_msg, inputs, set_id, json_content,
                   listing_requests, listing_last_offset, listing_had_match,
                   total_po_lines, members_served, members_returned, fetched,
                   content,
                   attempted, get_count, put_count, last_get, last_put,
                   outcome, stdout, network_used, probed>>

\* ---------------------------------------------------------- update_po_line
PoLineUrl(po_line_id) == Url("/almaws/v1/acq/po-lines/", Some(po_line_id))

\* An update that writes a renewal period whether or not one was asked for.
PatchContent_AlwaysPeriod(doc, date, period) ==
    ("renewal_period" :> (IF TruthyInt(period) THEN period[1] ELSE PeriodMin))
    @@ ("renewal_date" :> (date \o <<"Z">>)) @@ doc

\* Lines 84-86: the fetched document with the new renewal date and, when a
\* period was asked for, the new renewal period.
PatchContent(doc, date, period) ==
    LET dated == ("renewal_date" :> (date \o <<"Z">>)) @@ doc
    IN  IF TruthyInt(period) THEN ("renewal_period" :> period[1]) @@ dated
        ELSE dated

\* A PUT that addresses the first PO Line of the work list.
PutTarget_First(po_line_id) == sorted_ids[1]

\* The PO Line the PUT of line 87 addresses.
PutTarget(po_line_id) == po_line_id

Bump(count, id) == [count EXCEPT ![id] = @ + 1]

\* except RequestException as e: failed_po_line_ids.append((po_line_id, e))
Caught(failed, po_line_id, e) ==
    IF e = None THEN failed ELSE Append(failed, <<po_line_id, e[1]>>)

\* One iteration of the progress bar's loop: one call of update_po_line, with
\* the handler of line 172.
UpdatePoLine ==
    /\ pc = "update"
    /\ pos < Len(sorted_ids)
    /\ LET po_line_id == sorted_ids[pos + 1]
       IN  /\ attempted' = Append(attempted, po_line_id)
           /\ get_count' = Bump(get_count, po_line_id)
           /\ last_get' = Some(po_line_id)
           /\ \E got \in Answers(PoLineUrl(po_line_id), PoLineDocs) :
                LET e1 == RequestError(got)
                    body == PatchContent(got[1].json, new_renewal_date,
                                         new_renewal_period)
                    target == PutTarget(po_line_id)
                IN  IF e1 # None
                    THEN /\ failed_po_line_ids' =
                                Caught(failed_po_line_ids, po_line_id, e1)
                         /\ outcome' = [outcome EXCEPT ![po_line_id] = "failed"]
                         /\ fetched' = None
                         /\ content' = None
                         /\ last_put' = None
                         /\ UNCHANGED put_count
                    ELSE /\ fetched' = Some(got[1].json)
                         /\ content' = Some(body)
                         /\ put_count' = Bump(put_count, target)
                         /\ last_put' = Some(target)
                         /\ \E put \in Answers(PoLineUrl(target), {body}) :
                              LET e2 == RequestError(put)
                              IN  /\ failed_po_line_ids' =
                                        Caught(failed_po_line_ids, po_line_id, e2)
                                  /\ outcome' =
                                        [outcome EXCEPT ![po_line_id] =
                                            IF e2 = None THEN "updated"
                                            ELSE "failed"]
    /\ pos' = pos + 1
    /\ network_used' = TRUE
    /\ UNCHANGED <<pc, exit_code, exit_msg, inputs, set_id, resolver,
                   enumerator, sorted_ids, stdout, probed>>

\* ----------------------------------------------------------------- report
\* for failed_po_line_id, e in failed_po_line_ids: what is printed, and
\* whether echo_request_exception raised (which ends the loop).
RECURSIVE ReportFailures(_)
ReportFailures(failed) ==
    IF failed = <<>> THEN [out |-> <<>>, raised |-> FALSE]
    ELSE LET id_line == <<<<"id", Head(failed)[1]>>>>
             e == Head(failed)[2]
         IN  IF EchoRaises(e) THEN [out |-> id_line, raised |-> TRUE]
             ELSE LET rest == ReportFailures(Tail(failed))
                  IN  [out |-> id_line \o EchoLines(e) \o rest.out,
                       raised |-> rest.raised]

\* The exit status of a main that returns.
ReturnStatus(failed) == 0

\* Lines 175-180, and the end of main.
Report ==
    /\ pc = "update"
    /\ pos = Len(sorted_ids)
    /\ IF failed_po_line_ids = <<>>
       THEN /\ Exit(ReturnStatus(failed_po_line_ids), "")
            /\ UNCHANGED stdout
       ELSE LET r == ReportFailures(failed_po_line_ids)
            IN  /\ stdout' = stdout \o <<<<"failed", Len(failed_po_line_ids)>>>>
                                 \o r.out
                /\ IF r.raised THEN Exit(1, "AttributeError reporting failures")
                   ELSE Exit(ReturnStatus(failed_po_line_ids), "")
    /\ UNCHANGED <<inputs, set_id, resolver, enumerator, batch, network_used,
                   probed>>

Next ==
    \/ ClickParse
    \/ ValidateInput
    \/ CanAccessSets
    \/ CanAccessPoLines
    \/ GetSetIdPage
    \/ EchoFound
    \/ GetPoLineIdsPage
    \/ BuildWorkList
    \/ UpdatePoLine
    \/ Report

Spec == Init /\ [][Next]_vars

\* ================================================================ claims
BothEndpoints == {"/almaws/v1/conf/sets", "/almaws/v1/acq/po-lines"}

\* main got past the progress bar's loop: it returned, or died printing the
\* failures.
BatchRan ==
    /\ pc = "done"
    /\ exit_msg \in {"", "AttributeError reporting failures"}

NoPut == \A id \in PoLineIds : put_count[id] = 0
NoGet == \A id \in PoLineIds : get_count[id] = 0
FailedIds == {id \in PoLineIds : outcome[id] = "failed"}

\* C1 (as claimed): once the batch has run, the exit status is 0 exactly when
\* no update_po_line call failed.
C1_ExitStatusTellsFailures ==
    BatchRan => ((exit_code = 0) <=> (FailedIds = {}))

\* C2: the ids update_po_line is called with are in strictly ascending str
\* order (so none twice), each the smallest of the union of the served set
\* members and the arguments not yet attempted; once the batch has run they
\* are the whole union, whatever failed.
C2_SortedUnionAttemptedOnce ==
    LET union == members_served \cup ToSet(po_line_id_args)
    IN  /\ \A i \in 1..Len(attempted) :
             /\ attempted[i] \in union
             /\ \A w \in union :
                  StrLess(w, attempted[i]) => \E j \in 1..(i - 1) : attempted[j] = w
        /\ \A i \in 1..(Len(attempted) - 1) : StrLess(attempted[i], attempted[i + 1])
        /\ BatchRan => ToSet(attempted) = union

\* Set members "10" and "2", arguments "2" and "A": all three attempted, in
\* str order, though the second failed.
C2_Witness ==
    /\ BatchRan
    /\ members_served = {Id10, Id2}
    /\ po_line_id_args = <<IdA, Id2>>
    /\ attempted = <<Id10, Id2, IdA>>
    /\ outcome[Id2] = "failed"
    /\ outcome[IdA] = "updated"

\* C3 (as claimed): with a set name given and no served page naming it, no
\* PUT is ever sent and the run ends with a non-zero exit status.
C3_UnknownNameNeverMutates ==
    (TruthyStr(set_name) /\ ~listing_had_match)
        => (NoPut /\ (pc = "done" => exit_code # 0))

\* C4: when get_po_line_ids returns, the set it returns holds exactly the ids
\* served and as many as the last total_record_count; the run dies of the
\* assert only when the two differ, and then with a non-zero exit status and
\* no request for any PO Line.
C4_ReturnsTotalOrFaults ==
    /\ (pc = "merge" /\ members_returned)
           => /\ Cardinality(po_line_ids) = total_po_lines
              /\ po_line_ids = members_served
    /\ members_returned => Cardinality(members_served) = total_po_lines
    /\ exit_msg = "AssertionError"
           => /\ Cardinality(members_served) # total_po_lines
              /\ pc = "done" /\ exit_code # 0
              /\ NoGet /\ NoPut

\* The pager ran out of offsets on pages that repeat ids, and returned the
\* two distinct ids of a set whose total is two.
C4_Witness ==
    /\ pc = "merge"
    /\ members_returned
    /\ offset = MemberOffsetStop
    /\ po_line_ids = {Id10, Id2}
    /\ total_po_lines = 2

\* C5: a PO Line is fetched or written only after both probes were answered
\* 2xx; once a probe was not, the run is over, with a non-zero exit status
\* and no request for any PO Line.
C5_NoUpdateBeforeBothProbes ==
    /\ (~NoGet \/ ~NoPut) => probed = BothEndpoints
    /\ (network_used /\ probed # BothEndpoints
            /\ pc \notin {"probe_sets", "probe_po_lines"})
           => (pc = "done" /\ exit_code # 0 /\ NoGet /\ NoPut)

\* The second probe got no answer at all.
C5_Witness ==
    /\ pc = "done"
    /\ probed = {"/almaws/v1/conf/sets"}
    /\ exit_msg = "AttributeError handling: Error: Unable to access the Alma API."
    /\ exit_code = 1

\* C6: the document written has the new date followed by "Z" as
\* renewal_date; its renewal_period is the period asked for or, when none was
\* asked for, what was fetched (absent when it was absent); every other field
\* is as fetched and no field is added.
C6_WritesFetchedWithRenewal ==
    content # None =>
        LET f == fetched[1]
            b == content[1]
            renewal == {"renewal_date", "renewal_period"}
        IN  /\ "renewal_date" \in DOMAIN b
            /\ b["renewal_date"] = Append(new_renewal_date, "Z")
            /\ new_renewal_period # None
                   => /\ "renewal_period" \in DOMAIN b
                      /\ b["renewal_period"] = new_renewal_period[1]
            /\ new_renewal_period = None
                   => /\ ("renewal_period" \in DOMAIN b) <=> ("renewal_period" \in DOMAIN f)
                      /\ "renewal_period" \in DOMAIN f
                             => b["renewal_period"] = f["renewal_period"]
            /\ DOMAIN b \ renewal = DOMAIN f \ renewal
            /\ \A k \in DOMAIN f \ renewal : b[k] = f[k]

\* The document of the spec's example, written with no period asked for.
C6_Witness ==
    /\ new_renewal_period = None
    /\ fetched = Some(BaseDoc)
    /\ content =
          Some(("renewal_date" :>
                    <<"2", "0", "2", "4", "-", "0", "6", "-", "0", "1", "Z">>)
               @@ ("other_field" :> "X"))
    /\ last_put # None

\* C7: no PO Line is fetched or written twice in a run; a PUT goes to the id
\* just fetched, and only after its fetch was answered 2xx; an update the API
\* accepted took exactly one PUT and a failed fetch is followed by none.
C7_OnePutAfterItsFetch ==
    /\ \A id \in PoLineIds :
         /\ get_count[id] <= 1
         /\ put_count[id] <= get_count[id]
         /\ outcome[id] = "updated" => put_count[id] = 1
    /\ last_put # None => (last_put = last_get /\ fetched # None)
    /\ (last_get # None /\ fetched = None)
           => (last_put = None /\ put_count[last_get[1]] = 0)

\* Three calls: the first updated, the second failed on its fetch, the third
\* failed on its PUT.
C7_Witness ==
    /\ attempted = <<Id10, Id2, IdA>>
    /\ outcome[Id10] = "updated" /\ put_count[Id10] = 1
    /\ outcome[Id2] = "failed" /\ put_count[Id2] = 0
    /\ outcome[IdA] = "failed" /\ put_count[IdA] = 1

\* Renewal dates of the input space that name no day of the calendar.
InvalidDates ==
    {Date_2023_02_29, Date_2024_13_01, Date_2024_6_1, Date_2024_06_31,
     Date_BadSeparator}

UsageExit ==
    /\ ~network_used
    /\ pc \in {"parse", "validate", "done"}
    /\ pc = "done" => exit_code # 0

\* C8 (as claimed): with neither a set name nor a PO Line ID given, or with
\* an invalid renewal date, the run sends no request and ends non-zero.
C8_NoNameNoIdsIsUsageError ==
    ((~TruthyStr(set_name) /\ po_line_id_args = <<>>)
        \/ new_renewal_date \in InvalidDates) => UsageExit

\* C8 (amended): with none of a set name, a set ID and a PO Line ID given, or
\* with an invalid renewal date, the run sends no request and ends non-zero.
C8_NothingGivenIsUsageError ==
    ((~TruthyStr(set_name) /\ ~TruthyStr(set_id) /\ po_line_id_args = <<>>)
        \/ new_renewal_date \in InvalidDates) => UsageExit

\* A valid date and period, nothing to update: main's own check ended the run.
C8_Witness ==
    /\ pc = "done"
    /\ set_name = None /\ set_id = None /\ po_line_id_args = <<>>
    /\ new_renewal_date = Date_2024_02_29
    /\ exit_code = 1
    /\ ~network_used

\* C9 (as claimed): once the batch has run, the output names exactly the ids
\* whose update failed, each followed by the detail of its own failure.
C9_ReportNamesEveryFailure ==
    BatchRan =>
        \A id \in PoLineIds :
            (id \in FailedIds) <=>
                \E i \in 1..(Len(stdout) - 1) :
                    /\ stdout[i][1] = "id"
                    /\ stdout[i][2] = id
                    /\ stdout[i + 1][1] = "detail"
                    /\ stdout[i + 1][2] = PoLineUrl(id)

\* C10: the k-th request of get_set_id asks for offset 50*(k-1); once a
\* served page has an entry with exactly the name, no further request is
\* sent, and the id returned is that of the first such entry of that page.
C10_FirstMatchStopsPaging ==
    /\ listing_requests > 0
           => listing_last_offset = OFFSET_LIMIT_WINDOW_SIZE * (listing_requests - 1)
    /\ listing_had_match => pc # "get_set_id"
    /\ (pc = "found" /\ listing_had_match)
           => /\ json_content # None
              /\ LET page == json_content[1]["set"]
                 IN  \E i \in 1..Len(page) :
                        /\ page[i].name = set_name[1]
                        /\ set_id = Some(page[i].id)
                        /\ \A j \in 1..(i - 1) : page[j].name # set_name[1]

\* The third page is the first to name "S", and names it twice.
C10_Witness ==
    /\ pc = "found"
    /\ listing_requests = 3
    /\ listing_last_offset = 100
    /\ json_content =
          Some("set" :> <<[id |-> "102", name |-> "S"], [id |-> "101", name |-> "S"]>>)
    /\ set_id = Some("102")

====
